---- MODULE Spec2Model ----
(***************************************************************************)
(* Model of package logger (src/logger.go): a process-wide zap logger      *)
(* built once under sync.Once, a lazy accessor, seven severity emitters    *)
(* and the context-tagged emitter LogWithContext.                          *)
(*                                                                         *)
(* Goroutines call the package functions concurrently.  The package-level  *)
(* variable `logger` is written inside once.Do and read outside any        *)
(* synchronisation (ensureLoggerInitialized, LogWithContext); such a read  *)
(* races with the write, so a goroutine that has not passed through        *)
(* once.Do may see the old nil or the new pointer, and a pointer obtained  *)
(* that way carries no guarantee about the pointed-to contents.            *)
(***************************************************************************)
EXTENDS Integers, Sequences, FiniteSets

\* ---------------------------------------------------------------- bounds
NumThreads == 2
MaxCalls == 2
MaxEmits == 1

Threads == 1..NumThreads

\* ------------------------------------------------- zapcore.Level values
DebugLevel == -1
InfoLevel == 0
WarnLevel == 1
ErrorLevel == 2
DPanicLevel == 3
PanicLevel == 4
FatalLevel == 5
CustomLevel == FatalLevel + 1

ZapLevels == {DebugLevel, InfoLevel, WarnLevel, ErrorLevel, DPanicLevel, PanicLevel, FatalLevel}
AnyLevels == ZapLevels \cup {CustomLevel}

\* -------------------------------------------------------- input domains
ValidNames == {"debug", "info", "warn", "error", "fatal"}
LevelNames == ValidNames \cup {"", "DEBUG"}
Messages == {"y"}
FieldSeqs == {<<"a", "b">>}
EmitNames == {"Debug", "Info", "Warn", "Error", "Fatal", "DPanic", "Panic"}

Nil == [id |-> 0]
NoOp == [name |-> "none"]
NoLevel == "<none>"
NoCall == [level |-> CustomLevel, msg |-> "", fields |-> << >>]

\* The fixed field LogWithContext prepends.
ModuleField == "module=product-service"

\* ------------------------------------------------------ pure functions

\* resolveLevel with a case-insensitive match of "debug".
resolveLevelFolding(level) ==
    CASE level \in {"debug", "DEBUG"} -> DebugLevel
      [] level = "info" -> InfoLevel
      [] level = "warn" -> WarnLevel
      [] level = "error" -> ErrorLevel
      [] level = "fatal" -> FatalLevel
      [] OTHER -> InfoLevel

\* switch level { case "debug": ... default: InfoLevel }
resolveLevel(level) ==
    CASE level = "debug" -> DebugLevel
      [] level = "info" -> InfoLevel
      [] level = "warn" -> WarnLevel
      [] level = "error" -> ErrorLevel
      [] level = "fatal" -> FatalLevel
      [] OTHER -> InfoLevel

\* The zap method each severity emitter forwards to.
emitLevel(name) ==
    CASE name = "Debug" -> DebugLevel
      [] name = "Info" -> InfoLevel
      [] name = "Warn" -> WarnLevel
      [] name = "Error" -> ErrorLevel
      [] name = "Fatal" -> FatalLevel
      [] name = "DPanic" -> DPanicLevel
      [] name = "Panic" -> PanicLevel

\* allFields with the module field appended instead of prepended.
allFieldsAppended(fields) == fields \o <<ModuleField>>

\* allFields := append(baseFields, fields...)
allFields(fields) == <<ModuleField>> \o fields

\* dispatchCases with a case for PanicLevel as well.
dispatchCasesWithPanic ==
    {DebugLevel, InfoLevel, WarnLevel, ErrorLevel, FatalLevel, DPanicLevel, PanicLevel}

\* The cases of LogWithContext's switch.
dispatchCases == {DebugLevel, InfoLevel, WarnLevel, ErrorLevel, FatalLevel, DPanicLevel}

\* coreEnabled with a strict comparison.
coreEnabledStrict(minLevel, lvl) == lvl > minLevel

\* zapLevel as the LevelEnabler of both cores: a record is admitted when its
\* level is at least the minimum.
coreEnabled(minLevel, lvl) == lvl >= minLevel

\* zap.AddStacktrace(zapcore.ErrorLevel)
addStack(lvl) == lvl >= ErrorLevel

\* One encoded line: which encoder produced it and what it carries.
line(enc, call) ==
    [enc |-> enc, level |-> call.level, msg |-> call.msg, fields |-> call.fields,
     caller |-> TRUE, stack |-> addStack(call.level)]

\* What a zap method does after the write: Panic panics, Fatal exits, DPanic
\* panics only for a development logger, and zap.New builds a production one.
terminal(lvl) ==
    CASE lvl = PanicLevel -> "panic"
      [] lvl = FatalLevel -> "exit"
      [] OTHER -> "ok"

VARIABLES
    logger,     \* the package variable: Nil or the constructed instance
    once,       \* sync.Once: "fresh", "running" (body executing), "done"
    built,      \* how many times the once body constructed an instance
    firstLevel, \* the level name the once body was first entered with
    file,       \* lines appended to ./user-service.log
    stdout,     \* lines written to os.Stdout
    stdlog,     \* messages of the standard log package (log.Printf/Println)
    exited,     \* os.Exit was called
    calls,      \* calls started so far
    emits,      \* emitting calls started so far
    pc,         \* per goroutine: position inside the current call
    op,         \* per goroutine: the call in progress
    level,      \* per goroutine: LogInit's parameter
    cont,       \* per goroutine: where LogInit returns to
    zapLevel,   \* per goroutine: local of the once body
    writer,     \* per goroutine: local of the once body ("file" / "stdout")
    view,       \* per goroutine: "none", "racy" or "synced" view of logger
    inst,       \* per goroutine: the *zap.Logger it holds
    call,       \* per goroutine: the zap method call being made
    outcome     \* per goroutine: how its last call ended

shared == <<logger, once, built, firstLevel, file, stdout, stdlog, exited>>
counters == <<calls, emits>>
initLocals == <<level, cont, zapLevel, writer>>
vars == <<logger, once, built, firstLevel, file, stdout, stdlog, exited, calls, emits,
          pc, op, level, cont, zapLevel, writer, view, inst, call, outcome>>

Init ==
    /\ logger = Nil
    /\ once = "fresh"
    /\ built = 0
    /\ firstLevel = "unset"
    /\ file = << >>
    /\ stdout = << >>
    /\ stdlog = << >>
    /\ exited = FALSE
    /\ calls = 0
    /\ emits = 0
    /\ pc = [t \in Threads |-> "idle"]
    /\ op = [t \in Threads |-> NoOp]
    /\ level = [t \in Threads |-> NoLevel]
    /\ cont = [t \in Threads |-> "idle"]
    /\ zapLevel = [t \in Threads |-> InfoLevel]
    /\ writer = [t \in Threads |-> "file"]
    /\ view = [t \in Threads |-> "none"]
    /\ inst = [t \in Threads |-> Nil]
    /\ call = [t \in Threads |-> NoCall]
    /\ outcome = [t \in Threads |-> "none"]

\* ------------------------------------------------------------- callers

\* A goroutine enters a package function.
Begin(t, o, p) ==
    /\ ~exited
    /\ pc[t] = "idle"
    /\ calls < MaxCalls
    /\ calls' = calls + 1
    /\ op' = [op EXCEPT ![t] = o]
    /\ pc' = [pc EXCEPT ![t] = p]
    /\ outcome' = [outcome EXCEPT ![t] = "running"]
    /\ inst' = [inst EXCEPT ![t] = Nil]
    /\ UNCHANGED <<shared, zapLevel, writer, view, call>>

\* The call of goroutine t is over, normally ("ok") or not; `held` is the
\* instance the caller is left holding.
Finish(t, oc, held) ==
    /\ pc' = [pc EXCEPT ![t] = "idle"]
    /\ op' = [op EXCEPT ![t] = NoOp]
    /\ call' = [call EXCEPT ![t] = NoCall]
    /\ inst' = [inst EXCEPT ![t] = held]
    /\ outcome' = [outcome EXCEPT ![t] = oc]

CallLogInit(t) ==
    \E l \in LevelNames :
        /\ Begin(t, [name |-> "LogInit"], "once")
        /\ level' = [level EXCEPT ![t] = l]
        /\ cont' = [cont EXCEPT ![t] = "idle"]
        /\ emits' = emits

CallGetLogger(t) ==
    /\ Begin(t, [name |-> "GetLogger"], "ensure")
    /\ level' = [level EXCEPT ![t] = NoLevel]
    /\ UNCHANGED <<cont, emits>>

CallEmit(t) ==
    \E n \in EmitNames, m \in Messages, f \in FieldSeqs :
        /\ emits < MaxEmits
        /\ emits' = emits + 1
        /\ Begin(t, [name |-> n, msg |-> m, fields |-> f], "ensure")
        /\ level' = [level EXCEPT ![t] = NoLevel]
        /\ cont' = cont

CallLogWithContext(t) ==
    \E l \in AnyLevels, m \in Messages, f \in FieldSeqs :
        /\ emits < MaxEmits
        /\ emits' = emits + 1
        /\ Begin(t, [name |-> "LogWithContext", level |-> l, msg |-> m, fields |-> f], "switch")
        /\ level' = [level EXCEPT ![t] = NoLevel]
        /\ cont' = cont

\* ------------------------------------------------------------- LogInit

\* LogInit returns: to its caller (who still has the level name it passed), or
\* into GetLogger when ensureLoggerInitialized made the call.
InitReturn(t) ==
    /\ cont' = [cont EXCEPT ![t] = "idle"]
    /\ IF cont[t] = "idle"
       THEN /\ Finish(t, "ok", Nil)
            /\ level' = level
       ELSE /\ pc' = [pc EXCEPT ![t] = cont[t]]
            /\ level' = [level EXCEPT ![t] = NoLevel]
            /\ UNCHANGED <<op, call, inst, outcome>>

\* once.Do when the body already ran to completion: returns at once, and the
\* return is synchronised after the body.
OnceDone(t) ==
    /\ ~exited
    /\ pc[t] = "once"
    /\ once = "done"
    /\ view' = [view EXCEPT ![t] = "synced"]
    /\ InitReturn(t)
    /\ UNCHANGED <<shared, counters, zapLevel, writer>>

\* onceAdmits without mutual exclusion: a caller enters while the body runs.
onceAdmitsWhileRunning(o) == o \in {"fresh", "running"}

\* onceAdmits without the done flag: a later caller runs the body again.
onceAdmitsAgain(o) == o \in {"fresh", "done"}

\* Whether once.Do lets this caller run the body.
onceAdmits(o) == o = "fresh"

\* once.Do for the first caller: it runs the body, which starts by resolving
\* the level name.  A caller arriving while the body runs waits (no step)
\* until once = "done".
OnceRun(t) ==
    /\ ~exited
    /\ pc[t] = "once"
    /\ onceAdmits(once)
    /\ once' = "running"
    /\ firstLevel' = IF once = "fresh" THEN level[t] ELSE firstLevel
    /\ zapLevel' = [zapLevel EXCEPT ![t] = resolveLevel(level[t])]
    /\ pc' = [pc EXCEPT ![t] = "open"]
    /\ UNCHANGED <<logger, built, file, stdout, stdlog, exited, counters, op,
                   level, cont, writer, view, inst, call, outcome>>

\* mustOpenFile without the fallback: the (invalid) file whatever happened.
mustOpenFileNoFallback(ok) == "file"

\* mustOpenFile: the file writer, or os.Stdout when os.OpenFile fails.
mustOpenFile(ok) == IF ok THEN "file" ELSE "stdout"

InitOpenFile(t) ==
    /\ ~exited
    /\ pc[t] = "open"
    /\ \E ok \in BOOLEAN :
        /\ writer' = [writer EXCEPT ![t] = mustOpenFile(ok)]
        /\ stdlog' = IF ok THEN stdlog ELSE Append(stdlog, "Failed to open log file")
    /\ pc' = [pc EXCEPT ![t] = "construct"]
    /\ UNCHANGED <<logger, once, built, firstLevel, file, stdout, exited, counters, op,
                   level, cont, zapLevel, view, inst, call, outcome>>

\* logger = zap.New(NewTee(json core on the file writer, console core on
\* os.Stdout), ...), both cores with the resolved level.
InitConstruct(t) ==
    /\ ~exited
    /\ pc[t] = "construct"
    /\ built' = built + 1
    /\ logger' = [id |-> built + 1, minLevel |-> zapLevel[t], fileWriter |-> writer[t]]
    /\ view' = [view EXCEPT ![t] = "synced"]
    /\ pc' = [pc EXCEPT ![t] = "sync"]
    /\ UNCHANGED <<once, firstLevel, file, stdout, stdlog, exited, counters, op,
                   initLocals, inst, call, outcome>>

\* The deferred logger.Sync() (its error only goes to log.Printf), then the
\* once is marked done and LogInit returns.
InitSync(t) ==
    /\ ~exited
    /\ pc[t] = "sync"
    /\ \E err \in BOOLEAN :
        stdlog' = IF err THEN Append(stdlog, "Failed to flush logger") ELSE stdlog
    /\ once' = "done"
    /\ zapLevel' = [zapLevel EXCEPT ![t] = InfoLevel]
    /\ writer' = [writer EXCEPT ![t] = "file"]
    /\ InitReturn(t)
    /\ UNCHANGED <<logger, built, firstLevel, file, stdout, exited, counters, view>>

\* ----------------------------------------------------------- GetLogger

\* The values an unsynchronised read of `logger` by goroutine t may yield.
racyReads(t) ==
    IF logger = Nil THEN {Nil}
    ELSE IF view[t] = "none" THEN {Nil, logger}
    ELSE {logger}

\* The goroutine's view after reading v without synchronisation.
viewAfter(t, v) == IF v # Nil /\ view[t] = "none" THEN "racy" ELSE view[t]

\* ensureLoggerInitialized: if logger == nil { log.Println; LogInit("info") }
EnsureRead(t) ==
    /\ ~exited
    /\ pc[t] = "ensure"
    /\ \E v \in racyReads(t) :
        IF v = Nil
        THEN /\ stdlog' = Append(stdlog, "Logger not initialized")
             /\ level' = [level EXCEPT ![t] = "info"]
             /\ cont' = [cont EXCEPT ![t] = "getret"]
             /\ pc' = [pc EXCEPT ![t] = "once"]
             /\ view' = view
        ELSE /\ view' = [view EXCEPT ![t] = viewAfter(t, v)]
             /\ pc' = [pc EXCEPT ![t] = "getret"]
             /\ UNCHANGED <<stdlog, level, cont>>
    /\ UNCHANGED <<logger, once, built, firstLevel, file, stdout, exited, counters, op,
                   zapLevel, writer, inst, call, outcome>>

\* return logger; GetLogger's caller keeps it, a severity emitter calls its
\* zap method on it.
GetReturn(t) ==
    /\ ~exited
    /\ pc[t] = "getret"
    /\ IF op[t].name = "GetLogger"
       THEN Finish(t, "ok", logger)
       ELSE /\ inst' = [inst EXCEPT ![t] = logger]
            /\ pc' = [pc EXCEPT ![t] = "zap"]
            /\ call' = [call EXCEPT ![t] = [level |-> emitLevel(op[t].name),
                                            msg |-> op[t].msg, fields |-> op[t].fields]]
            /\ UNCHANGED <<op, outcome>>
    /\ UNCHANGED <<shared, counters, initLocals, view>>

\* ------------------------------------------------------ LogWithContext

\* A level the switch has a case for: read logger and call its method.
LWCDispatch(t) ==
    /\ ~exited
    /\ pc[t] = "switch"
    /\ op[t].level \in dispatchCases
    /\ \E v \in racyReads(t) :
        /\ inst' = [inst EXCEPT ![t] = v]
        /\ view' = [view EXCEPT ![t] = viewAfter(t, v)]
    /\ call' = [call EXCEPT ![t] = [level |-> op[t].level, msg |-> op[t].msg,
                                    fields |-> allFields(op[t].fields)]]
    /\ pc' = [pc EXCEPT ![t] = "zap"]
    /\ UNCHANGED <<shared, counters, op, initLocals, outcome>>

\* A level without a case: the switch falls through and the function returns.
LWCNoCase(t) ==
    /\ ~exited
    /\ pc[t] = "switch"
    /\ op[t].level \notin dispatchCases
    /\ Finish(t, "ok", Nil)
    /\ UNCHANGED <<shared, counters, initLocals, view>>

\* ---------------------------------------------------- the zap method call

\* ZapNil for a nil-safe logger: the call returns without doing anything.
ZapNilSafe(t) ==
    /\ ~exited
    /\ pc[t] = "zap"
    /\ inst[t] = Nil
    /\ Finish(t, "ok", Nil)
    /\ UNCHANGED <<shared, counters, initLocals, view>>

\* A method call on the nil *zap.Logger dereferences nil: a runtime panic.
ZapNil(t) ==
    /\ ~exited
    /\ pc[t] = "zap"
    /\ inst[t] = Nil
    /\ Finish(t, "fault", Nil)
    /\ UNCHANGED <<shared, counters, initLocals, view>>

\* A method call on a pointer obtained by a racing read, when the instance's
\* fields are not yet visible to this goroutine: a runtime panic as well.
ZapTorn(t) ==
    /\ ~exited
    /\ pc[t] = "zap"
    /\ inst[t] # Nil
    /\ view[t] = "racy"
    /\ Finish(t, "fault", Nil)
    /\ UNCHANGED <<shared, counters, initLocals, view>>

\* The lines a write of `c` by instance `i` adds to a destination.
written(i, c, dest) ==
    IF ~coreEnabled(i.minLevel, c.level) THEN << >>
    ELSE (IF i.fileWriter = dest THEN <<line("json", c)>> ELSE << >>)
         \o (IF dest = "stdout" THEN <<line("console", c)>> ELSE << >>)

\* A method call on the constructed instance: each core whose level admits
\* the record writes it (json core first, then console core), then Panic
\* panics and Fatal exits the process.
ZapLog(t) ==
    /\ ~exited
    /\ pc[t] = "zap"
    /\ inst[t] # Nil
    /\ file' = file \o written(inst[t], call[t], "file")
    /\ stdout' = stdout \o written(inst[t], call[t], "stdout")
    /\ exited' = (terminal(call[t].level) = "exit")
    /\ Finish(t, terminal(call[t].level), Nil)
    /\ UNCHANGED <<logger, once, built, firstLevel, stdlog, counters, initLocals, view>>

Next ==
    \E t \in Threads :
        \/ CallLogInit(t)
        \/ CallGetLogger(t)
        \/ CallEmit(t)
        \/ CallLogWithContext(t)
        \/ OnceDone(t)
        \/ OnceRun(t)
        \/ InitOpenFile(t)
        \/ InitConstruct(t)
        \/ InitSync(t)
        \/ EnsureRead(t)
        \/ GetReturn(t)
        \/ LWCDispatch(t)
        \/ LWCNoCase(t)
        \/ ZapNil(t)
        \/ ZapTorn(t)
        \/ ZapLog(t)

Spec == Init /\ [][Next]_vars

\* ================================================================ claims

\* Lines a sink has produced: the json core writes to the file or, after a
\* failed open, to os.Stdout; the console core writes to os.Stdout.
CountEnc(seq, enc) == Cardinality({i \in DOMAIN seq : seq[i].enc = enc})
JsonLines(f, s) == CountEnc(f, "json") + CountEnc(s, "json")
ConsoleLines(s) == CountEnc(s, "console")

\* Position of x in the sequence `order`.
Rank(order, x) == CHOOSE i \in DOMAIN order : order[i] = x

\* zap's order of the severities, named as the level names and emitters are.
ZapOrder == <<"debug", "info", "warn", "error", "dpanic", "panic", "fatal">>
SeverityOf(name) ==
    CASE name = "Debug" -> "debug" [] name = "Info" -> "info" [] name = "Warn" -> "warn"
      [] name = "Error" -> "error" [] name = "Fatal" -> "fatal"
      [] name = "DPanic" -> "dpanic" [] name = "Panic" -> "panic"

\* The severities LogWithContext has a branch for.
Supported == {DebugLevel, InfoLevel, WarnLevel, ErrorLevel, FatalLevel, DPanicLevel}

\* Goroutine t finishes its call in this step.
Ends(t) == pc[t] # "idle" /\ pc'[t] = "idle"

StdlogHas(m) == \E i \in DOMAIN stdlog : stdlog[i] = m

\* ---------------------------------------------------------------- C1
\* C1: however LogInit, GetLogger and the severity emitters interleave, the
\* construction body runs at most once, exactly once by the time any of them
\* returns, and every instance a caller holds or is about to be handed is
\* that one instance.
C1_ExactlyOneInstance ==
    /\ built <= 1
    /\ once = "done" => (built = 1 /\ logger # Nil)
    /\ \A t \in Threads :
        /\ inst[t] # Nil => (inst[t] = logger /\ logger.id = 1)
        /\ pc[t] = "getret" => (built = 1 /\ logger # Nil)
        /\ (pc[t] = "zap" /\ op[t].name \in EmitNames) => inst[t] = logger

\* Two goroutines both found logger nil, both went into LogInit("info"), and
\* both hold the one instance GetLogger returned.
C1_Witness ==
    /\ built = 1
    /\ Len(stdlog) >= 2
    /\ stdlog[1] = "Logger not initialized"
    /\ stdlog[2] = "Logger not initialized"
    /\ \E t1, t2 \in Threads :
        t1 # t2 /\ inst[t1] = logger /\ inst[t2] = logger /\ logger # Nil

\* ---------------------------------------------------------------- C2
\* C2: once the first LogInit has completed, no step changes the instance or
\* constructs another one, and the minimum severity in force is the one
\* resolved from the level name the first call was given.
C2_LaterLogInitNoEffect ==
    /\ [][once = "done" => (logger' = logger /\ built' = built /\ once' = "done")]_vars
    /\ [](once = "done" => logger.minLevel = resolveLevel(firstLevel))

\* A LogInit call with a level name that resolves differently has returned
\* after the first initialization.
C2_Witness ==
    /\ once = "done"
    /\ \E t \in Threads :
        /\ pc[t] = "idle"
        /\ outcome[t] = "ok"
        /\ level[t] \in LevelNames
        /\ level[t] # firstLevel
        /\ resolveLevel(level[t]) # logger.minLevel

\* ---------------------------------------------------------------- C3
\* A severity emitter's zap call by a goroutine for which initialization with
\* a valid level name has happened: it writes one line per sink exactly when
\* the emitted severity is at least the level in `order`, and nothing otherwise.
FiltersBy(order) ==
    \A t \in Threads :
        (/\ pc[t] = "zap"
         /\ Ends(t)
         /\ op[t].name \in EmitNames
         /\ view[t] = "synced"
         /\ firstLevel \in ValidNames)
        => LET admitted == Rank(order, SeverityOf(op[t].name)) >= Rank(order, firstLevel)
               n == IF admitted THEN 1 ELSE 0
           IN /\ JsonLines(file', stdout') = JsonLines(file, stdout) + n
              /\ ConsoleLines(stdout') = ConsoleLines(stdout) + n
              /\ Len(file') + Len(stdout') = Len(file) + Len(stdout) + 2 * n

\* C3 as claimed: the filter follows the order debug < info < warn < error <
\* fatal < panic variants.
C3_FilterClaimedOrder ==
    [][FiltersBy(<<"debug", "info", "warn", "error", "fatal", "dpanic", "panic">>)]_vars

\* C3 amended: the filter follows zap's order debug < info < warn < error <
\* dpanic < panic < fatal, so after LogInit("fatal") DPanic and Panic write
\* nothing.
C3_FilterZapOrder == [][FiltersBy(ZapOrder)]_vars

\* After LogInit("warn"), Error has written one line to each sink.
C3_Witness ==
    /\ firstLevel = "warn"
    /\ Len(file) = 1
    /\ file[1].enc = "json" /\ file[1].level = ErrorLevel /\ file[1].msg = "y"
    /\ Len(stdout) = 1
    /\ stdout[1].enc = "console" /\ stdout[1].level = ErrorLevel

\* ---------------------------------------------------------------- C4
\* C4: a level name outside {"debug","info","warn","error","fatal"} (the empty
\* string, "DEBUG") resolves to info, and the initializing call signals no
\* failure: while it runs nothing has failed, and it ends normally.
C4_UnknownNameIsInfo ==
    /\ [](\A t \in Threads :
            /\ (pc[t] \in {"open", "construct", "sync"} /\ firstLevel \notin ValidNames)
                => zapLevel[t] = InfoLevel
            /\ pc[t] \in {"once", "open", "construct", "sync"} => outcome[t] = "running")
    /\ []((logger # Nil /\ firstLevel \notin ValidNames) => logger.minLevel = InfoLevel)
    /\ [][\A t \in Threads :
            (pc[t] \in {"once", "sync"} /\ Ends(t)) => (outcome'[t] = "ok" /\ ~exited')]_vars

\* LogInit("DEBUG") completed and the instance filters at info.
C4_Witness ==
    /\ once = "done"
    /\ firstLevel = "DEBUG"
    /\ logger.minLevel = InfoLevel
    /\ \E t \in Threads : pc[t] = "idle" /\ outcome[t] = "ok" /\ level[t] = "DEBUG"

\* ---------------------------------------------------------------- C5
\* C5: whenever GetLogger is about to return, the instance exists and the
\* caller's view of it is synchronised with its construction.
C5_GetLoggerFullyConstructed ==
    \A t \in Threads : pc[t] = "getret" => (logger # Nil /\ view[t] = "synced")

\* ---------------------------------------------------------------- C6
\* C6: when os.OpenFile failed, initialization still completes normally with
\* an instance whose json core writes to os.Stdout; a record that instance
\* admits is then written to os.Stdout twice (json and console line), the
\* file stays untouched, and the call fails in no way (it ends normally, or
\* as Fatal and Panic are meant to end).
C6_OpenFailureFallsBack ==
    /\ [](\A t \in Threads :
            (pc[t] \in {"construct", "sync"} /\ StdlogHas("Failed to open log file"))
                => (writer[t] = "stdout" /\ outcome[t] = "running"))
    /\ []((once = "done" /\ StdlogHas("Failed to open log file"))
            => (logger # Nil /\ logger.fileWriter = "stdout"))
    /\ [][\A t \in Threads :
            (/\ pc[t] = "zap"
             /\ Ends(t)
             /\ view[t] = "synced"
             /\ StdlogHas("Failed to open log file")
             /\ call[t].level >= inst[t].minLevel)
            => /\ file' = file
               /\ Len(stdout') = Len(stdout) + 2
               /\ stdout'[Len(stdout) + 1] = line("json", call[t])
               /\ stdout'[Len(stdout) + 2] = line("console", call[t])
               /\ outcome'[t] \in {"ok", "panic", "exit"}
               /\ outcome'[t] = "ok" <=> call[t].level \notin {PanicLevel, FatalLevel}]_vars

\* The open failed, LogInit("info") completed, and Info's record is on
\* os.Stdout while the file is empty.
C6_Witness ==
    /\ StdlogHas("Failed to open log file")
    /\ firstLevel = "info"
    /\ once = "done"
    /\ file = << >>
    /\ Len(stdout) = 2
    /\ stdout[1].enc = "json" /\ stdout[1].level = InfoLevel /\ stdout[1].msg = "y"
    /\ \A t \in Threads : outcome[t] \in {"ok", "none"}

\* ---------------------------------------------------------------- C7
\* What holds of every LogWithContext call that finds logger nil, and of the
\* severity emitters: LogWithContext never starts an initialization and
\* writes nothing; its call on the nil instance is a fault that leaves the
\* package state as it was; the emitters go into LogInit("info") when they
\* read nil and only ever call a non-nil instance.
NilUse ==
    \A t \in Threads :
        /\ (pc[t] = "switch" /\ pc'[t] # "switch")
            => UNCHANGED <<logger, once, built, firstLevel, file, stdout, stdlog, exited>>
        /\ (pc[t] = "zap" /\ inst[t] = Nil /\ Ends(t))
            => /\ outcome'[t] = "fault"
               /\ UNCHANGED <<logger, once, built, firstLevel, file, stdout, stdlog, exited>>
        /\ (pc[t] = "ensure" /\ logger = Nil /\ pc'[t] # "ensure")
            => (pc'[t] = "once" /\ level'[t] = "info")
        /\ (pc[t] = "zap" /\ op[t].name \in EmitNames) => inst[t] # Nil

\* C7 as claimed: every LogWithContext call made while logger is nil goes on
\* to call a method on the nil instance (and faults).
C7_NilFaultAnyLevel ==
    [][/\ NilUse
       /\ \A t \in Threads :
            (pc[t] = "switch" /\ logger = Nil /\ pc'[t] # "switch")
                => (pc'[t] = "zap" /\ inst'[t] = Nil)]_vars

\* C7 amended: a LogWithContext call made while logger is nil goes on to
\* call a method on the nil instance (and faults) when its severity has a
\* branch; with any other severity it returns normally, also doing nothing.
C7_NilFaultSupportedLevel ==
    [][/\ NilUse
       /\ \A t \in Threads :
            (pc[t] = "switch" /\ logger = Nil /\ pc'[t] # "switch")
                => IF op[t].level \in Supported
                   THEN pc'[t] = "zap" /\ inst'[t] = Nil
                   ELSE pc'[t] = "idle" /\ outcome'[t] = "ok"]_vars

\* The only call so far was a LogWithContext with a supported severity; it
\* faulted and nothing was initialized or written.
C7_Witness ==
    /\ calls = 1 /\ emits = 1
    /\ \E t \in Threads : pc[t] = "idle" /\ outcome[t] = "fault"
    /\ logger = Nil /\ once = "fresh"
    /\ file = << >> /\ stdout = << >> /\ stdlog = << >>

\* ---------------------------------------------------------------- C8
\* C8: every zap call LogWithContext makes carries the module field first,
\* then the caller's fields in their order, at the severity and with the
\* message it was given; and on an initialized instance the lines written
\* carry exactly that.
C8_ModuleFieldFirst ==
    /\ [](\A t \in Threads :
            (pc[t] = "zap" /\ op[t].name = "LogWithContext")
            => /\ call[t].fields = <<ModuleField>> \o op[t].fields
               /\ call[t].level = op[t].level
               /\ call[t].msg = op[t].msg)
    /\ [][\A t \in Threads :
            (/\ pc[t] = "zap"
             /\ Ends(t)
             /\ op[t].name = "LogWithContext"
             /\ Len(stdout') > Len(stdout))
            => LET l == stdout'[Len(stdout')]
               IN /\ Head(l.fields) = ModuleField
                  /\ Tail(l.fields) = op[t].fields
                  /\ l.level = op[t].level]_vars

\* After initialization a LogWithContext record was written with the module
\* field ahead of the caller's two fields.
C8_Witness ==
    /\ once = "done"
    /\ \E i \in DOMAIN stdout :
        /\ stdout[i].fields = <<ModuleField, "a", "b">>
        /\ stdout[i].level = WarnLevel

\* ---------------------------------------------------------------- C9
\* C9: a call ends other than normally only if it is one at a fatal or panic
\* severity, and then only together with the write of its record; a Fatal
\* call ends the process and a Panic call ends in a panic.
C9_OnlyFatalPanicInterrupt ==
    [][\A t \in Threads :
        Ends(t) =>
            /\ outcome'[t] # "ok"
                => /\ \/ op[t].name \in {"Fatal", "Panic", "DPanic"}
                      \/ /\ op[t].name = "LogWithContext"
                         /\ op[t].level \in {FatalLevel, PanicLevel, DPanicLevel}
                   /\ Len(stdout') > Len(stdout)
            /\ op[t].name = "Fatal" => (outcome'[t] = "exit" /\ exited')
            /\ op[t].name = "Panic" => outcome'[t] = "panic"]_vars

\* --------------------------------------------------------------- C10
\* C10: LogWithContext with a severity it has no branch for (panic, a custom
\* level) returns normally in one step that writes nothing and changes
\* nothing of the package state, whether or not a logger exists.
C10_UnsupportedLevelDropped ==
    [][\A t \in Threads :
        (/\ pc[t] = "switch"
         /\ op[t].level \notin Supported
         /\ pc'[t] # "switch")
        => /\ pc'[t] = "idle"
           /\ outcome'[t] = "ok"
           /\ UNCHANGED <<logger, once, built, firstLevel, file, stdout, stdlog, exited>>]_vars

\* After a completed initialization, a single emitting call returned
\* normally; it wrote nothing although the instance admits every severity.
C10_Witness ==
    /\ once = "done"
    /\ firstLevel = "debug"
    /\ emits = 1
    /\ \A t \in Threads : pc[t] = "idle" /\ outcome[t] \in {"ok", "none"}
    /\ file = << >> /\ stdout = << >>

====
